---- MODULE Spec2Model ----
(***************************************************************************)
(* Model of metadata/createMetadata.py: a script that lists the *.json     *)
(* files of a directory, derives a resource ID from each file name, and    *)
(* for each file reads it, fetches a bearer token with the gcloud CLI and  *)
(* issues one curl POST.                                                   *)
(*                                                                         *)
(* Strings are sequences of ASCII code points, so that str.lower, the      *)
(* regular expression [^a-z0-9]+, str.strip, str.endswith, os.path.splitext*)
(* and sorted() are computed the way Python computes them.                 *)
(*   46 '.'  45 '-'  95 '_'  49 '1'  65 'A'  97 'a'  98 'b'  10 '\n'       *)
(*   106 115 111 110 "json"   116 120 116 "txt"                            *)
(***************************************************************************)
EXTENDS Integers, Sequences, FiniteSets, TLC

(* ---------------------------- bounds ----------------------------------- *)

\* Largest number of entries of a directory drawn from NamePool.
MaxFiles == 3

\* Longest generated file-name stem (directories holding one generated name).
MaxStemLen == 4

(* --------------------- strings as the code uses them ------------------- *)

\* The suffix tested by f.endswith('.json').
JsonExt == <<46, 106, 115, 111, 110>>

\* A mutant of EndsWith: the dot of the suffix is not required ('json').
EndsWithNoDot(s, suffix) ==
    /\ Len(s) >= Len(suffix) - 1
    /\ SubSeq(s, Len(s) - Len(suffix) + 2, Len(s)) = Tail(suffix)

\* str.endswith
EndsWith(s, suffix) ==
    /\ Len(s) >= Len(suffix)
    /\ SubSeq(s, Len(s) - Len(suffix) + 1, Len(s)) = suffix

\* os.path.splitext(p)[0] for a name without a path separator: the name is cut
\* at its last dot, unless every character before that dot is a dot too (a
\* leading-dots name has no extension) or there is no dot.
Splitext(p) ==
    LET dots     == {i \in 1..Len(p) : p[i] = 46}
        dotIndex == IF dots = {} THEN 0
                    ELSE CHOOSE i \in dots : \A j \in dots : j <= i
    IN  IF dotIndex > 0 /\ \E k \in 1..(dotIndex - 1) : p[k] # 46
        THEN SubSeq(p, 1, dotIndex - 1)
        ELSE p

\* str.lower on ASCII.
Lower(s) == [i \in 1..Len(s) |-> IF s[i] \in 65..90 THEN s[i] + 32 ELSE s[i]]

\* The character class [a-z0-9] of the regular expression.
InClass(c) == c \in 97..122 \/ c \in 48..57

\* The rest of s after its leading run of characters outside [a-z0-9].
RECURSIVE SkipRun(_)
SkipRun(s) ==
    IF s # <<>> /\ ~InClass(Head(s)) THEN SkipRun(Tail(s)) ELSE s

\* A mutant of ReSub: the pattern without '+', one hyphen per character.
ReSubEachChar(s) == [i \in 1..Len(s) |-> IF InClass(s[i]) THEN s[i] ELSE 45]

\* re.sub(r'[^a-z0-9]+', '-', s): every maximal run outside the class becomes
\* one hyphen.
RECURSIVE ReSub(_)
ReSub(s) ==
    IF s = <<>> THEN <<>>
    ELSE IF InClass(Head(s)) THEN <<Head(s)>> \o ReSub(Tail(s))
    ELSE <<45>> \o ReSub(SkipRun(Tail(s)))

\* str.strip(chars): leading and trailing characters of the set are removed.
RECURSIVE LStrip(_, _)
LStrip(s, chars) ==
    IF s # <<>> /\ Head(s) \in chars THEN LStrip(Tail(s), chars) ELSE s

RECURSIVE RStrip(_, _)
RStrip(s, chars) ==
    IF s # <<>> /\ s[Len(s)] \in chars
    THEN RStrip(SubSeq(s, 1, Len(s) - 1), chars)
    ELSE s

Strip(s, chars) == RStrip(LStrip(s, chars), chars)

\* The characters str.strip() removes when given no argument (ASCII).
Whitespace == (9..13) \cup (28..32)

\* Lines 125-127: the resource ID derived from a file name.
ResourceId(filename) == Strip(ReSub(Lower(Splitext(filename))), {45})

\* Python's order on strings: by code point, a proper prefix first.
StrLess(a, b) ==
    LET n    == IF Len(a) < Len(b) THEN Len(a) ELSE Len(b)
        diff == {k \in 1..n : a[k] # b[k]}
    IN  IF diff = {} THEN Len(a) < Len(b)
        ELSE LET k == CHOOSE x \in diff : \A y \in diff : x <= y
             IN  a[k] < b[k]

\* sorted(json_files)
RECURSIVE Sorted(_)
Sorted(S) ==
    IF S = {} THEN <<>>
    ELSE LET m == CHOOSE x \in S : \A y \in S \ {x} : StrLess(x, y)
         IN  <<m>> \o Sorted(S \ {m})

(* ----------------------------- inputs ---------------------------------- *)

\* File names a directory may hold: "a.json" "A.json" "a_b.json" "a-b.json"
\* "_.json" "..json" "a.txt" "ajson".
NamePool ==
    { <<97>> \o JsonExt, <<65>> \o JsonExt,
      <<97, 95, 98>> \o JsonExt, <<97, 45, 98>> \o JsonExt,
      <<95>> \o JsonExt, <<46>> \o JsonExt,
      <<97, 46, 116, 120, 116>>, <<97, 106, 115, 111, 110>> }

\* Characters of generated stems: 'a' 'A' '1' '_' '-' '.'.
StemChars == {97, 65, 49, 95, 45, 46}

GeneratedNames ==
    { s \o JsonExt : s \in UNION { [1..n -> StemChars] : n \in 0..MaxStemLen } }

Directories ==
    { d \in SUBSET NamePool : Cardinality(d) <= MaxFiles }
        \cup { {f} : f \in GeneratedNames }

\* What gcloud may write to standard output when it exits zero: nothing,
\* "\n", "t\n", "u\n".
GcloudStdout == { <<>>, <<10>>, <<116, 10>>, <<117, 10>> }

(* ------------------------------ state ---------------------------------- *)

VARIABLES
    dirExists,     \* os.path.isdir(args.definitions_dir)
    entries,       \* os.listdir(args.definitions_dir), as a set
    pc,            \* "main" "loop" "read" "token" "curl" "done" "crashed"
    sorted_files,  \* sorted(json_files), the list the for loop iterates
    idx,           \* position of the loop in sorted_files
    filename,      \* the loop variable
    resource_id,   \* the derived ID of the current file
    definition,    \* create_metadata_resource's local: the file contents
    access_token,  \* create_metadata_resource's local: the stripped token
    output,        \* what was printed to standard output, in order
    calls          \* calls of create_metadata_resource, open, gcloud, curl

vars == <<dirExists, entries, pc, sorted_files, idx, filename, resource_id,
          definition, access_token, output, calls>>

None == <<>>

Event(op, res, out) ==
    [op |-> op, file |-> filename, id |-> resource_id, res |-> res,
     out |-> out, token |-> access_token, body |-> definition]

Msg(kind, f) == [msg |-> kind, file |-> f]

Init ==
    /\ dirExists \in BOOLEAN
    /\ entries \in Directories
    /\ dirExists = FALSE => entries = {}
    /\ pc = "main"
    /\ sorted_files = <<>>
    /\ idx = 0
    /\ filename = None
    /\ resource_id = None
    /\ definition = None
    /\ access_token = None
    /\ output = <<>>
    /\ calls = <<>>

(* ----------------------------- actions --------------------------------- *)

\* main, lines 101-119: the directory check, the listing and the sort.
MainStart ==
    /\ pc = "main"
    /\ LET json_files == {f \in entries : EndsWith(f, JsonExt)}
       IN  IF ~dirExists
           THEN /\ output' = Append(output, Msg("dir_not_found", None))
                /\ pc' = "done"
                /\ UNCHANGED <<sorted_files, idx>>
           ELSE IF json_files = {}
           THEN /\ output' = Append(output, Msg("no_json", None))
                /\ pc' = "done"
                /\ UNCHANGED <<sorted_files, idx>>
           ELSE /\ output' = Append(output, Msg("found", None))
                /\ sorted_files' = Sorted(json_files)
                /\ idx' = 1
                /\ pc' = "loop"
    /\ UNCHANGED <<dirExists, entries, filename, resource_id, definition,
                   access_token, calls>>

\* A mutant of SkipFile: an ID already passed on is skipped as well.
SkipFileOrDuplicate(id) ==
    id = <<>> \/ \E i \in DOMAIN calls : calls[i].id = id

\* main, line 129: "if not resource_id".
SkipFile(id) == id = <<>>

\* main, lines 122-131: a file whose derived ID is empty is skipped.
LoopSkip ==
    /\ pc = "loop"
    /\ idx <= Len(sorted_files)
    /\ SkipFile(ResourceId(sorted_files[idx]))
    /\ filename' = sorted_files[idx]
    /\ resource_id' = ResourceId(sorted_files[idx])
    /\ output' = Append(output, Msg("skip_warning", sorted_files[idx]))
    /\ idx' = idx + 1
    /\ UNCHANGED <<dirExists, entries, pc, sorted_files, definition,
                   access_token, calls>>

\* main, lines 122-142 and line 20: the file is passed to
\* create_metadata_resource.
LoopCall ==
    /\ pc = "loop"
    /\ idx <= Len(sorted_files)
    /\ ~SkipFile(ResourceId(sorted_files[idx]))
    /\ filename' = sorted_files[idx]
    /\ resource_id' = ResourceId(sorted_files[idx])
    /\ output' = Append(output, Msg("processing", sorted_files[idx]))
    /\ calls' = Append(calls,
                       [op |-> "create", file |-> sorted_files[idx],
                        id |-> ResourceId(sorted_files[idx]), res |-> "",
                        out |-> None, token |-> None, body |-> None])
    /\ pc' = "read"
    /\ UNCHANGED <<dirExists, entries, sorted_files, idx, definition,
                   access_token>>

\* main, line 122: the list is exhausted and main returns.
LoopEnd ==
    /\ pc = "loop"
    /\ idx > Len(sorted_files)
    /\ pc' = "done"
    /\ UNCHANGED <<dirExists, entries, sorted_files, idx, filename,
                   resource_id, definition, access_token, output, calls>>

\* create_metadata_resource returns to the loop; its locals are gone.
Return ==
    /\ pc' = "loop"
    /\ idx' = idx + 1
    /\ definition' = None
    /\ access_token' = None

\* create_metadata_resource, lines 22-30: the file is read.
ReadFile ==
    /\ pc = "read"
    /\ \E r \in {"ok", "FileNotFoundError", "Exception"} :
         /\ calls' = Append(calls, Event("open", r, None))
         /\ IF r = "ok"
            THEN /\ definition' = <<"contents of", filename>>
                 /\ pc' = "token"
                 /\ UNCHANGED <<idx, access_token, output>>
            ELSE /\ output' = Append(output,
                        Msg(IF r = "FileNotFoundError" THEN "file_not_found"
                            ELSE "read_error", filename))
                 /\ Return
    /\ UNCHANGED <<dirExists, entries, sorted_files, filename, resource_id>>

\* A mutant of FetchToken: the token is not fetched, a held one is used.
FetchTokenReused ==
    /\ pc = "token"
    /\ access_token' = <<116>>
    /\ pc' = "curl"
    /\ UNCHANGED <<dirExists, entries, sorted_files, idx, filename,
                   resource_id, definition, output, calls>>

\* create_metadata_resource, lines 39-52: gcloud auth print-access-token.
\* subprocess.run raises OSError when gcloud cannot be started,
\* CalledProcessError when it exits non-zero and a ValueError when its output
\* cannot be decoded; only CalledProcessError and ValueError are caught, so
\* OSError leaves the function and main, and the interpreter ends with a
\* traceback.
FetchToken ==
    /\ pc = "token"
    /\ \E r \in {"OSError", "CalledProcessError", "ValueError", "exit0"} :
       \E stdout \in GcloudStdout :
         /\ r # "exit0" => stdout = <<>>
         /\ calls' = Append(calls, Event("gcloud", r, stdout))
         /\ IF r = "OSError"
            THEN /\ pc' = "crashed"
                 /\ UNCHANGED <<idx, definition, access_token, output>>
            ELSE IF r = "CalledProcessError"
            THEN /\ output' = Append(output, Msg("token_error", filename))
                 /\ Return
            ELSE IF r = "ValueError" \/ Strip(stdout, Whitespace) = <<>>
            THEN /\ output' = Append(output, Msg("token_empty", filename))
                 /\ Return
            ELSE /\ access_token' = Strip(stdout, Whitespace)
                 /\ pc' = "curl"
                 /\ UNCHANGED <<idx, definition, output>>
    /\ UNCHANGED <<dirExists, entries, sorted_files, filename, resource_id>>

\* A mutant of CallCurl: a failed POST is tried again.
CallCurlRetry ==
    /\ pc = "curl"
    /\ \E r \in {"exit0", "CalledProcessError"} :
         /\ calls' = Append(calls, Event("curl", r, None))
         /\ IF r = "exit0"
            THEN /\ output' = Append(output, Msg("success", filename))
                 /\ Return
            ELSE UNCHANGED <<pc, idx, definition, access_token, output>>
    /\ UNCHANGED <<dirExists, entries, sorted_files, filename, resource_id>>

\* create_metadata_resource, lines 55-79: the curl POST and its report.
CallCurl ==
    /\ pc = "curl"
    /\ \E r \in {"exit0", "CalledProcessError", "Exception"} :
         /\ calls' = Append(calls, Event("curl", r, None))
         /\ output' = Append(output,
                Msg(CASE r = "exit0" -> "success"
                      [] r = "CalledProcessError" -> "curl_error"
                      [] OTHER -> "unexpected_error", filename))
         /\ Return
    /\ UNCHANGED <<dirExists, entries, sorted_files, filename, resource_id>>

Next ==
    \/ MainStart
    \/ LoopSkip
    \/ LoopCall
    \/ LoopEnd
    \/ ReadFile
    \/ FetchToken
    \/ CallCurl

Spec == Init /\ [][Next]_vars

(* ------------------- vocabulary of the properties ---------------------- *)

\* The name ends in the five characters ".json".
IsJsonName(f) ==
    /\ Len(f) >= 5
    /\ f[Len(f) - 4] = 46 /\ f[Len(f) - 3] = 106 /\ f[Len(f) - 2] = 115
    /\ f[Len(f) - 1] = 111 /\ f[Len(f)] = 110

\* The name with its last five characters, ".json", cut off.
NameBeforeExt(f) == SubSeq(f, 1, Len(f) - 5)

\* A letter or a digit.
IsAlnumChar(c) == c \in 97..122 \/ c \in 65..90 \/ c \in 48..57

\* The .json files of the directory the run was started on.
JsonEntries == IF dirExists THEN {f \in entries : IsJsonName(f)} ELSE {}

Finished == pc \in {"done", "crashed"}

\* The positions in the log of the events of kind op about file f.
EvIdx(op, f) == {i \in DOMAIN calls : calls[i].op = op /\ calls[i].file = f}

\* create_metadata_resource is running for f.
InCall(f) == pc \in {"read", "token", "curl"} /\ filename = f

ReadOk(f) == \E i \in EvIdx("open", f) : calls[i].res = "ok"

\* gcloud exited zero and printed something other than white space.
GoodFetch(e) ==
    /\ e.op = "gcloud" /\ e.res = "exit0"
    /\ \E k \in DOMAIN e.out : e.out[k] \notin Whitespace

TokenOk(f) == \E i \in EvIdx("gcloud", f) : GoodFetch(calls[i])

\* The final reports printed about f.
ErrorMsgs ==
    {"file_not_found", "read_error", "token_error", "token_empty",
     "curl_error", "unexpected_error"}

Reports(f, kinds) ==
    {i \in DOMAIN output : output[i].file = f /\ output[i].msg \in kinds}

\* The m-th smallest element of a set of positions.
Nth(P, m) == CHOOSE x \in P : Cardinality({y \in P : y <= x}) = m

\* id is the hyphenated slug of the lowercased stem L.
IsSlugOf(id, L) ==
    LET PI == {i \in DOMAIN id : id[i] # 45}
        PL == {i \in DOMAIN L : InClass(L[i])}
    IN  /\ \A i \in DOMAIN id : InClass(id[i]) \/ id[i] = 45
        /\ id # <<>> => id[1] # 45 /\ id[Len(id)] # 45
        /\ \A i \in 1..(Len(id) - 1) : ~(id[i] = 45 /\ id[i + 1] = 45)
        /\ Cardinality(PI) = Cardinality(PL)
        /\ \A m \in 1..Cardinality(PL) : id[Nth(PI, m)] = L[Nth(PL, m)]
        /\ \A m \in 1..(Cardinality(PL) - 1) :
             (Nth(PI, m + 1) - Nth(PI, m) = 2)
                 <=> (Nth(PL, m + 1) - Nth(PL, m) > 1)

(* ----------------------------- properties ------------------------------ *)

\* C1: a failure while processing one file never stops the run: when the run
\* is over, every .json file of the directory whose derived ID is non-empty
\* has been passed to create_metadata_resource.
C1_RunNeverStopped ==
    Finished =>
        \A f \in JsonEntries :
            ResourceId(f) # <<>> => EvIdx("create", f) # {}

\* C2: every failure of the file read, of the token retrieval and of the HTTP
\* call is caught inside create_metadata_resource and reported as a printed
\* message; no exception escapes to main.
C2_AllFailuresCaught ==
    /\ pc # "crashed"
    /\ \A i \in DOMAIN calls :
         LET e == calls[i]
             failed == \/ e.op = "open" /\ e.res # "ok"
                       \/ e.op = "gcloud" /\ ~GoodFetch(e)
                       \/ e.op = "curl" /\ e.res # "exit0"
         IN  failed => Reports(e.file, ErrorMsgs) # {}

\* C3: at most one POST (curl invocation) is issued per file, a failed POST is
\* not repeated, and a file that was read and for which a non-empty token was
\* obtained gets exactly one POST by the time its call is over.
C3_OnePostPerFile ==
    \A f \in JsonEntries :
        /\ Cardinality(EvIdx("curl", f)) <= 1
        /\ EvIdx("curl", f) # {} => ResourceId(f) # <<>>
        /\ (ReadOk(f) /\ TokenOk(f) /\ ~InCall(f))
               => Cardinality(EvIdx("curl", f)) = 1

\* A run that ended after a POST failed and a later file was posted as well.
C3_Witness ==
    /\ pc = "done"
    /\ \E i, j \in DOMAIN calls :
         /\ i < j
         /\ calls[i].op = "curl" /\ calls[i].res = "CalledProcessError"
         /\ calls[j].op = "curl" /\ calls[j].file # calls[i].file

C5_NonAlnumNameSkipped ==
    \A f \in JsonEntries :
        (/\ NameBeforeExt(f) # <<>>
         /\ \A k \in DOMAIN NameBeforeExt(f) : ~IsAlnumChar(NameBeforeExt(f)[k]))
            => /\ \A i \in DOMAIN calls : calls[i].file # f
               /\ Reports(f, {"processing"}) = {}

\* C6: within one call the steps are read, token fetch, POST, each only after
\* the earlier ones succeeded; the token is fetched at most once per file and
\* the token a POST carries is the one fetched in the same call; a failed read
\* is followed by no token fetch and no POST for that file.
C6_ReadThenTokenThenPost ==
    /\ \A i \in DOMAIN calls :
         LET e == calls[i]
         IN  /\ e.op = "curl" =>
                  /\ i > 3
                  /\ GoodFetch(calls[i - 1])
                  /\ calls[i - 1].file = e.file
                  /\ e.token = Strip(calls[i - 1].out, Whitespace)
                  /\ calls[i - 2].op = "open" /\ calls[i - 2].res = "ok"
                  /\ calls[i - 2].file = e.file
                  /\ calls[i - 3].op = "create" /\ calls[i - 3].file = e.file
             /\ e.op = "gcloud" =>
                  /\ i > 2
                  /\ calls[i - 1].op = "open" /\ calls[i - 1].res = "ok"
                  /\ calls[i - 1].file = e.file
             /\ (e.op = "open" /\ e.res # "ok" /\ i < Len(calls)) =>
                  /\ calls[i + 1].op = "create"
                  /\ calls[i + 1].file # e.file
    /\ \A f \in JsonEntries : Cardinality(EvIdx("gcloud", f)) <= 1
    /\ pc = "curl" => /\ calls # <<>>
                      /\ GoodFetch(calls[Len(calls)])
                      /\ calls[Len(calls)].file = filename

\* Two files were posted in one run, each after a token fetch of its own, and
\* a third file's read failed.
C6_Witness ==
    /\ \E i, j \in DOMAIN calls :
         /\ i < j
         /\ calls[i].op = "curl" /\ calls[j].op = "curl"
         /\ calls[i].file # calls[j].file
    /\ \E i \in DOMAIN calls : calls[i].op = "open" /\ calls[i].res # "ok"

\* C7: when definitions_dir is not an existing directory, or holds no name
\* ending in ".json", main prints one message and returns: no file is read,
\* no token is fetched, no POST is issued.
C7_NothingWithoutJsonFiles ==
    (pc # "main" /\ JsonEntries = {}) =>
        /\ pc = "done"
        /\ calls = <<>>
        /\ Len(output) = 1
        /\ output[1].msg = IF dirExists THEN "no_json" ELSE "dir_not_found"

\* main returned on a directory that exists and holds only other names.
C7_Witness ==
    /\ pc = "done"
    /\ dirExists
    /\ entries # {}
    /\ JsonEntries = {}

\* C8: only entries whose name ends in ".json" are processed, in ascending
\* order of file name, every step of a file before any step of the next, and
\* each of them exactly once in the run.
C8_SortedSequentialExactlyOnce ==
    LET skipped(f)   == Reports(f, {"skip_warning"})
        processed(f) == Cardinality(EvIdx("create", f))
                            + Cardinality(skipped(f))
    IN  /\ \A i \in DOMAIN calls : calls[i].file \in JsonEntries
        /\ \A i \in DOMAIN output :
             output[i].file # None => output[i].file \in JsonEntries
        /\ \A i, j \in DOMAIN calls :
             i < j => ~StrLess(calls[j].file, calls[i].file)
        /\ \A i, j \in DOMAIN output :
             (i < j /\ output[i].file # None)
                 => ~StrLess(output[j].file, output[i].file)
        /\ \A f \in JsonEntries : processed(f) <= 1
        /\ Finished => \A f \in JsonEntries : processed(f) = 1

\* C9: every file passed to create_metadata_resource gets exactly one final
\* report once its call is over: the success message if and only if the file
\* was read, a non-empty token was obtained and curl exited zero, and exactly
\* one error report otherwise.
C9_ExactlyOneReport ==
    \A f \in JsonEntries :
        (EvIdx("create", f) # {} /\ ~InCall(f)) =>
            LET ok == /\ ReadOk(f) /\ TokenOk(f)
                      /\ \E i \in EvIdx("curl", f) : calls[i].res = "exit0"
            IN  /\ Cardinality(Reports(f, {"success"})) = (IF ok THEN 1 ELSE 0)
                /\ Cardinality(Reports(f, ErrorMsgs)) = (IF ok THEN 0 ELSE 1)

\* C10: two different files that derive the same ID are each passed to
\* create_metadata_resource when their turn in the loop has come, and each is
\* posted with that ID once it was read and a token was obtained; none is
\* skipped for the other.
C10_DuplicateIdsBothPosted ==
    \A k, l \in 1..Len(sorted_files) :
        LET f == sorted_files[k]
            g == sorted_files[l]
        IN  (/\ k < l /\ l < idx
             /\ ResourceId(f) = ResourceId(g) /\ ResourceId(f) # <<>>)
                => \A h \in {f, g} :
                     /\ \E i \in EvIdx("create", h) :
                            calls[i].id = ResourceId(h)
                     /\ (ReadOk(h) /\ TokenOk(h)) =>
                            \E i \in EvIdx("curl", h) :
                                calls[i].id = ResourceId(h)

\* Two POSTs for different files carried the same ID.
C10_Witness ==
    \E i, j \in DOMAIN calls :
        /\ i < j
        /\ calls[i].op = "curl" /\ calls[j].op = "curl"
        /\ calls[i].file # calls[j].file
        /\ calls[i].id = calls[j].id

====
